---- MODULE Spec2Model ----
(***************************************************************************)
(* A model of the DNS wire-format codec of codecrafters-dns-server-rust:   *)
(* the 12-byte header (message/header.rs), domain names, questions and     *)
(* resource records (message/question_answer.rs) and the message container *)
(* (message/mod.rs), and of the forwarding server around it (main.rs).     *)
(*                                                                         *)
(* Bytes are naturals in 0..255 and buffers are sequences of bytes.  Every *)
(* fallible operation returns a record whose kind is "Ok" (with the value  *)
(* and, for a parser, the rest of the input), "Err" (the function returned *)
(* an error value) or "Panic" (panic!, todo!, expect or unwrap aborted the *)
(* thread).                                                                *)
(***************************************************************************)
EXTENDS Naturals, Sequences, FiniteSets, TLC

VARIABLES
    pc,      \* "idle", or the name of the codec operation that has been applied
    input,   \* the arguments the operation was applied to, a record
    output,  \* what the operation produced, a record
    server,  \* the forwarding server: its buffer, the request it serves, its socket events
    fresh,   \* the same server, had the datagram it serves been the first it received
    overflow_checks  \* the build: TRUE panics on integer overflow (debug), FALSE wraps (release)

vars == <<pc, input, output, server, fresh, overflow_checks>>

-----------------------------------------------------------------------------
(* Machine arithmetic on u8 / u16.                                         *)

RECURSIVE Pow2(_)
Pow2(n) == IF n = 0 THEN 1 ELSE 2 * Pow2(n - 1)

\* a >> n
Shr(a, n) == a \div Pow2(n)

\* (a << n) on a u8: the bits shifted out are lost
Shl8(a, n) == (a * Pow2(n)) % 256

\* (a << n) on a u16
Shl16(a, n) == (a * Pow2(n)) % 65536

RECURSIVE BitAnd(_, _)
BitAnd(a, b) ==
    IF a = 0 \/ b = 0 THEN 0
    ELSE (IF a % 2 = 1 /\ b % 2 = 1 THEN 1 ELSE 0) + 2 * BitAnd(a \div 2, b \div 2)

RECURSIVE BitOr(_, _)
BitOr(a, b) ==
    IF a = 0 THEN b
    ELSE IF b = 0 THEN a
    ELSE (IF a % 2 = 1 \/ b % 2 = 1 THEN 1 ELSE 0) + 2 * BitOr(a \div 2, b \div 2)

\* `b as u8` for a bool
BoolAsU8(b) == IF b THEN 1 ELSE 0

\* BufMut::put_u16: big endian
PutU16(v) == <<v \div 256, v % 256>>

\* BufMut::put_u32: big endian
PutU32(v) == <<(v \div 16777216) % 256, (v \div 65536) % 256, (v \div 256) % 256, v % 256>>

\* `n as u16` for a usize
AsU16(n) == n % 65536

\* s without its first n elements
Drop(s, n) == SubSeq(s, n + 1, Len(s))

\* the first n elements of s
Take(s, n) == SubSeq(s, 1, n)

-----------------------------------------------------------------------------
(* Results of fallible operations.                                         *)

Ok(value, rest) == [kind |-> "Ok", value |-> value, rest |-> rest]
Err == [kind |-> "Err"]
Panic == [kind |-> "Panic"]

\* nom::number::complete::u8 : one byte, or an error on empty input
NomU8(i) == IF Len(i) < 1 THEN Err ELSE Ok(i[1], Drop(i, 1))

\* nom::number::complete::be_u16 : two bytes big endian, or an error
NomBeU16(i) == IF Len(i) < 2 THEN Err ELSE Ok(i[1] * 256 + i[2], Drop(i, 2))

\* nom::bytes::complete::take(n)
NomTake(n, i) == IF Len(i) < n THEN Err ELSE Ok(Take(i, n), Drop(i, n))

-----------------------------------------------------------------------------
(* message/header.rs                                                       *)

OpCodes == {"Query", "IQuery", "Status", "Invalid"}

ResponseCodes ==
    {"Ok", "FormatError", "ServerFailure", "NameError", "NotImplemented", "Refused", "Invalid"}

\* `op_code as u8`: the discriminants of #[repr(u8)] enum OpCode
OpCodeAsU8(c) ==
    CASE c = "Query" -> 0
      [] c = "IQuery" -> 1
      [] c = "Status" -> 2
      [] c = "Invalid" -> 3

\* `response_code as u8`: the discriminants of #[repr(u8)] enum ResponseCode
ResponseCodeAsU8(c) ==
    CASE c = "Ok" -> 0
      [] c = "FormatError" -> 1
      [] c = "ServerFailure" -> 2
      [] c = "NameError" -> 3
      [] c = "NotImplemented" -> 4
      [] c = "Refused" -> 5
      [] c = "Invalid" -> 6

OpCode_parse(b) ==
    CASE b = 0 -> "Query"
      [] b = 1 -> "IQuery"
      [] b = 2 -> "Status"
      [] OTHER -> "Invalid"

ResponseCode_parse(b) ==
    CASE b = 0 -> "Ok"
      [] b = 1 -> "FormatError"
      [] b = 2 -> "ServerFailure"
      [] b = 3 -> "NameError"
      [] b = 4 -> "NotImplemented"
      [] b = 5 -> "Refused"
      [] OTHER -> "Invalid"

Header_new_query(packet_id, question_count) ==
    [ packet_id |-> packet_id,
      is_response |-> FALSE,
      op_code |-> "Query",
      authoritative_answer |-> FALSE,
      truncation |-> FALSE,
      recursion_desired |-> FALSE,
      recursion_available |-> FALSE,
      reserved |-> 0,
      response_code |-> "Ok",
      question_count |-> question_count,
      answer_record_count |-> 0,
      authority_record_count |-> 0,
      additional_record_count |-> 0 ]

Header_parse(i) ==
    LET id == NomBeU16(i) IN
    IF id.kind # "Ok" THEN Err ELSE
    LET b2 == NomU8(id.rest) IN
    IF b2.kind # "Ok" THEN Err ELSE
    LET byte2 == b2.value
        b3 == NomU8(b2.rest) IN
    IF b3.kind # "Ok" THEN Err ELSE
    LET byte3 == b3.value
        qd == NomBeU16(b3.rest) IN
    IF qd.kind # "Ok" THEN Err ELSE
    LET an == NomBeU16(qd.rest) IN
    IF an.kind # "Ok" THEN Err ELSE
    LET ns == NomBeU16(an.rest) IN
    IF ns.kind # "Ok" THEN Err ELSE
    LET ar == NomBeU16(ns.rest) IN
    IF ar.kind # "Ok" THEN Err ELSE
    Ok([ packet_id |-> id.value,
         is_response |-> BitAnd(Shr(byte2, 7), 1) # 0,
         op_code |-> OpCode_parse(BitAnd(Shr(byte2, 3), 15)),
         authoritative_answer |-> BitAnd(Shr(byte2, 2), 1) # 0,
         truncation |-> BitAnd(Shr(byte2, 1), 1) # 0,
         recursion_desired |-> BitAnd(byte2, 1) # 0,
         recursion_available |-> BitAnd(Shr(byte3, 7), 1) # 0,
         reserved |-> BitAnd(Shr(byte3, 4), 7),
         response_code |-> ResponseCode_parse(BitAnd(byte3, 15)),
         question_count |-> qd.value,
         answer_record_count |-> an.value,
         authority_record_count |-> ns.value,
         additional_record_count |-> ar.value ],
       ar.rest)

\* Header::write with the reserved field written one bit too low
Header_write_reserved3(h) ==
    LET byte2 == BitOr(BitOr(BitOr(BitOr(Shl8(BoolAsU8(h.is_response), 7),
                                         Shl8(OpCodeAsU8(h.op_code), 3)),
                                   Shl8(BoolAsU8(h.authoritative_answer), 2)),
                             Shl8(BoolAsU8(h.truncation), 1)),
                       BoolAsU8(h.recursion_desired))
        byte3 == BitOr(BitOr(Shl8(BoolAsU8(h.recursion_available), 7),
                             Shl8(h.reserved, 3)),
                       ResponseCodeAsU8(h.response_code))
    IN  PutU16(h.packet_id) \o <<byte2, byte3>> \o PutU16(h.question_count)
          \o PutU16(h.answer_record_count) \o PutU16(h.authority_record_count)
          \o PutU16(h.additional_record_count)

Header_write(h) ==
    LET byte2 == BitOr(BitOr(BitOr(BitOr(Shl8(BoolAsU8(h.is_response), 7),
                                         Shl8(OpCodeAsU8(h.op_code), 3)),
                                   Shl8(BoolAsU8(h.authoritative_answer), 2)),
                             Shl8(BoolAsU8(h.truncation), 1)),
                       BoolAsU8(h.recursion_desired))
        byte3 == BitOr(BitOr(Shl8(BoolAsU8(h.recursion_available), 7),
                             Shl8(h.reserved, 4)),
                       ResponseCodeAsU8(h.response_code))
    IN  PutU16(h.packet_id) \o <<byte2, byte3>> \o PutU16(h.question_count)
          \o PutU16(h.answer_record_count) \o PutU16(h.authority_record_count)
          \o PutU16(h.additional_record_count)

-----------------------------------------------------------------------------
(* message/question_answer.rs : record types and classes                   *)

MAX_LABEL_SIZE == 63

RecordTypeNames ==
    << "Address", "NameServer", "MailDestination", "MailForwarder", "CName",
       "StartOfAuthority", "Mailbox", "MailGroup", "MailRename", "Null",
       "WellKnownService", "Pointer", "HostInfo", "MailboxInfo", "MailExchange",
       "Text", "Invalid" >>

ClassNames == << "Internet", "CSNet", "Chaos", "Hesiod", "Invalid" >>

\* `ty as u16`: Address = 1 .. Text = 16, Invalid = 17
RecordTypeAsU16(t) == CHOOSE k \in 1..Len(RecordTypeNames) : RecordTypeNames[k] = t

\* `class as u16`: Internet = 1 .. Hesiod = 4, Invalid = 5
ClassAsU16(c) == CHOOSE k \in 1..Len(ClassNames) : ClassNames[k] = c

\* RecordType::parse reading a single byte instead of a big-endian u16
RecordType_parse_lowbyte(i) ==
    LET r == NomBeU16(i) IN
    IF r.kind # "Ok" THEN Err
    ELSE Ok(IF r.value % 256 \in 1..16 THEN RecordTypeNames[r.value % 256] ELSE "Invalid", r.rest)

RecordType_parse(i) ==
    LET r == NomBeU16(i) IN
    IF r.kind # "Ok" THEN Err
    ELSE Ok(IF r.value \in 1..16 THEN RecordTypeNames[r.value] ELSE "Invalid", r.rest)

Class_parse(i) ==
    LET r == NomBeU16(i) IN
    IF r.kind # "Ok" THEN Err
    ELSE Ok(IF r.value \in 1..4 THEN ClassNames[r.value] ELSE "Invalid", r.rest)

-----------------------------------------------------------------------------
(* Strings.  A Rust String is modelled by its bytes; String::from_utf8     *)
(* accepts exactly the well-formed UTF-8 byte sequences.                   *)

IsCont(b) == b \in 128..191

RECURSIVE IsUtf8(_)
IsUtf8(s) ==
    IF s = <<>> THEN TRUE
    ELSE LET b == s[1]
             n == Len(s) IN
         IF b < 128 THEN IsUtf8(Drop(s, 1))
         ELSE IF b \in 194..223 THEN
             n >= 2 /\ IsCont(s[2]) /\ IsUtf8(Drop(s, 2))
         ELSE IF b \in 224..239 THEN
             /\ n >= 3
             /\ IF b = 224 THEN s[2] \in 160..191
                ELSE IF b = 237 THEN s[2] \in 128..159
                ELSE IsCont(s[2])
             /\ IsCont(s[3])
             /\ IsUtf8(Drop(s, 3))
         ELSE IF b \in 240..244 THEN
             /\ n >= 4
             /\ IF b = 240 THEN s[2] \in 144..191
                ELSE IF b = 244 THEN s[2] \in 128..143
                ELSE IsCont(s[2])
             /\ IsCont(s[3])
             /\ IsCont(s[4])
             /\ IsUtf8(Drop(s, 4))
         ELSE FALSE

\* the byte of '.'
Dot == 46

\* str::split('.'): the pieces between the dots, empty pieces included
RECURSIVE SplitDots(_, _)
SplitDots(s, piece) ==
    IF s = <<>> THEN <<piece>>
    ELSE IF s[1] = Dot THEN <<piece>> \o SplitDots(Drop(s, 1), <<>>)
    ELSE SplitDots(Drop(s, 1), Append(piece, s[1]))

-----------------------------------------------------------------------------
(* message/question_answer.rs : Label and DomainName                       *)

\* Label::Value(String)
Value(s) == [tag |-> "Value", s |-> s, off |-> 0]

\* Label::Pointer(u16)
Pointer(off) == [tag |-> "Pointer", s |-> <<>>, off |-> off]

DomainName(labels) == [labels |-> labels]

\* DomainName::_new
DomainName_new(name) ==
    LET pieces == SplitDots(name, <<>>) IN
    IF \E k \in 1..Len(pieces) : Len(pieces[k]) > MAX_LABEL_SIZE THEN Err
    ELSE Ok(DomainName([k \in 1..Len(pieces) |-> Value(pieces[k])]), <<>>)

\* a + b in u16: past 65535 the sum panics where overflow is checked and
\* wraps where it is not
AddU16(a, b) ==
    IF a + b < 65536 THEN Ok(a + b, <<>>)
    ELSE IF overflow_checks THEN Panic
    ELSE Ok((a + b) % 65536, <<>>)

\* the bytes a label takes in its name (the match of length and get_label):
\* 1 + string.len() as u16, or 2
LabelCost(label) ==
    IF label.tag = "Value" THEN AddU16(1, AsU16(Len(label.s))) ELSE Ok(2, <<>>)

\* length += cost, cost being the result of the match
AddCost(length, cost) ==
    IF cost.kind # "Ok" THEN cost ELSE AddU16(length, cost.value)

\* the loop of DomainName::length from `length` on
RECURSIVE SumCostFrom(_, _)
SumCostFrom(labels, length) ==
    IF labels = <<>> THEN length
    ELSE IF length.kind # "Ok" THEN length
    ELSE SumCostFrom(Drop(labels, 1), AddCost(length.value, LabelCost(labels[1])))

\* the loop of DomainName::length
SumCost(labels) == SumCostFrom(labels, Ok(0, <<>>))

\* length += 1 for the final null byte of a name that ends in a Value label
WithFinalNull(length, last) ==
    IF length.kind # "Ok" THEN length
    ELSE IF last.tag = "Value" THEN AddU16(length.value, 1)
    ELSE length

\* DomainName::length without the final null byte
DomainName_length_noterm(name) ==
    IF name.labels = <<>> THEN Panic
    ELSE SumCost(name.labels)

\* DomainName::length; labels.last().unwrap() panics on an empty label list
DomainName_length(name) ==
    IF name.labels = <<>> THEN Panic
    ELSE WithFinalNull(SumCost(name.labels), name.labels[Len(name.labels)])

\* DomainName::get_label: the label that starts at `offset` within the name;
\* name_offset is the result of the additions so far
RECURSIVE GetLabelFrom(_, _, _)
GetLabelFrom(labels, offset, name_offset) ==
    IF name_offset.kind # "Ok" THEN name_offset
    ELSE IF labels = <<>> THEN Err
    ELSE IF offset = name_offset.value THEN
        (IF labels[1].tag = "Value" THEN Ok(labels[1].s, <<>>) ELSE Err)
    ELSE GetLabelFrom(Drop(labels, 1), offset,
                      AddCost(name_offset.value, LabelCost(labels[1])))

DomainName_get_label(name, offset) == GetLabelFrom(name.labels, offset, Ok(0, <<>>))

\* the loop of DomainName::parse going on after a pointer
RECURSIVE ParseLabels_past_pointer(_, _)
ParseLabels_past_pointer(rest, labels) ==
    LET b == NomU8(rest) IN
    IF b.kind # "Ok" THEN Err ELSE
    LET label_length == b.value IN
    IF label_length = 0 THEN Ok(DomainName(labels), b.rest)
    ELSE IF Shr(label_length, 6) = 3 THEN
        LET p == NomU8(b.rest) IN
        IF p.kind # "Ok" THEN Err
        ELSE ParseLabels_past_pointer(p.rest,
                 Append(labels, Pointer(BitOr(Shl16(BitAnd(label_length, 63), 8), p.value))))
    ELSE IF label_length > MAX_LABEL_SIZE THEN Panic
    ELSE LET t == NomTake(label_length, b.rest) IN
         IF t.kind # "Ok" THEN Err
         ELSE IF ~IsUtf8(t.value) THEN Panic
         ELSE ParseLabels_past_pointer(t.rest, Append(labels, Value(t.value)))

\* the loop of DomainName::parse
RECURSIVE ParseLabels(_, _)
ParseLabels(rest, labels) ==
    LET b == NomU8(rest) IN
    IF b.kind # "Ok" THEN Err ELSE
    LET label_length == b.value IN
    IF label_length = 0 THEN Ok(DomainName(labels), b.rest)
    ELSE IF Shr(label_length, 6) = 3 THEN
        LET p == NomU8(b.rest) IN
        IF p.kind # "Ok" THEN Err
        ELSE Ok(DomainName(Append(labels,
                    Pointer(BitOr(Shl16(BitAnd(label_length, 63), 8), p.value)))),
                p.rest)
    ELSE IF label_length > MAX_LABEL_SIZE THEN Panic
    ELSE LET t == NomTake(label_length, b.rest) IN
         IF t.kind # "Ok" THEN Err
         ELSE IF ~IsUtf8(t.value) THEN Panic
         ELSE ParseLabels(t.rest, Append(labels, Value(t.value)))

DomainName_parse(i) == ParseLabels(i, <<>>)

\* the loop of DomainName::write with a Pointer label put as its two bytes
RECURSIVE WriteLabels_pointer_bytes(_, _)
WriteLabels_pointer_bytes(labels, buf) ==
    IF labels = <<>> THEN [kind |-> "Ok", buf |-> Append(buf, 0)]
    ELSE LET label == labels[1] IN
         IF label.tag = "Value" THEN
             IF Len(label.s) > MAX_LABEL_SIZE THEN [kind |-> "Err", buf |-> buf]
             ELSE WriteLabels_pointer_bytes(Drop(labels, 1),
                                            buf \o <<Len(label.s) % 256>> \o label.s)
         ELSE [kind |-> "Ok", buf |-> buf \o <<192 + Shr(label.off, 8), label.off % 256>>]

\* the loop of DomainName::write; `buf` is what has been put so far and is
\* kept as it is when the function bails or panics
RECURSIVE WriteLabels(_, _)
WriteLabels(labels, buf) ==
    IF labels = <<>> THEN [kind |-> "Ok", buf |-> Append(buf, 0)]
    ELSE LET label == labels[1] IN
         IF label.tag = "Value" THEN
             IF Len(label.s) > MAX_LABEL_SIZE THEN [kind |-> "Err", buf |-> buf]
             ELSE WriteLabels(Drop(labels, 1), buf \o <<Len(label.s) % 256>> \o label.s)
         ELSE [kind |-> "Panic", buf |-> buf]

\* DomainName::write appending to buf
DomainName_write(name, buf) == WriteLabels(name.labels, buf)

-----------------------------------------------------------------------------
(* message/question_answer.rs : Question and ResourceRecord                *)

Question(name, ty, class) == [name |-> name, ty |-> ty, class |-> class]

Question_parse(i) ==
    LET n == DomainName_parse(i) IN
    IF n.kind # "Ok" THEN n ELSE
    LET t == RecordType_parse(n.rest) IN
    IF t.kind # "Ok" THEN Err ELSE
    LET c == Class_parse(t.rest) IN
    IF c.kind # "Ok" THEN Err ELSE
    Ok(Question(n.value, t.value, c.value), c.rest)

\* self.name.length() + 4
Question_length(q) == AddCost(4, DomainName_length(q.name))

Question_get_label(q, offset) ==
    LET n == DomainName_length(q.name) IN
    IF n.kind # "Ok" THEN n
    ELSE IF offset >= n.value THEN Err
    ELSE DomainName_get_label(q.name, offset)

Question_write(q, buf) ==
    LET n == DomainName_write(q.name, buf) IN
    IF n.kind # "Ok" THEN n
    ELSE [kind |-> "Ok",
          buf |-> n.buf \o PutU16(RecordTypeAsU16(q.ty)) \o PutU16(ClassAsU16(q.class))]

\* ResourceRecordData::length: 4 for the only variant, IPv4
ResourceRecordData_length(data) == 4

\* ResourceRecord::new
ResourceRecord_new(name, ty, class, time_to_live, data) ==
    [ name |-> name, ty |-> ty, class |-> class, time_to_live |-> time_to_live,
      length |-> ResourceRecordData_length(data), data |-> data ]

\* ResourceRecord::parse is todo!()
ResourceRecord_parse(i) == Panic

ResourceRecordData_write(data, buf) ==
    [kind |-> "Ok", buf |-> buf \o PutU16(ResourceRecordData_length(data)) \o data]

ResourceRecord_write(r, buf) ==
    LET n == DomainName_write(r.name, buf) IN
    IF n.kind # "Ok" THEN n
    ELSE ResourceRecordData_write(r.data,
             n.buf \o PutU16(RecordTypeAsU16(r.ty)) \o PutU16(ClassAsU16(r.class))
                   \o PutU32(r.time_to_live))

-----------------------------------------------------------------------------
(* message/mod.rs                                                          *)

Message(header, questions, answers, authorities, additionals) ==
    [ header |-> header, questions |-> questions, answers |-> answers,
      authorities |-> authorities, additionals |-> additionals ]

\* Message::new_query announcing one question whatever it is given
Message_new_query_one_question(packet_id, questions) ==
    Message(Header_new_query(packet_id, 1), questions, <<>>, <<>>, <<>>)

\* Message::new_query; packet_id is the value drawn from the random generator
Message_new_query(packet_id, questions) ==
    Message(Header_new_query(packet_id, AsU16(Len(questions))), questions, <<>>, <<>>, <<>>)

\* Message::new_reply that always answers Ok
Message_new_reply_always_ok(query_message, questions, answers) ==
    Message([ packet_id |-> query_message.header.packet_id,
              is_response |-> TRUE,
              op_code |-> query_message.header.op_code,
              authoritative_answer |-> FALSE,
              truncation |-> FALSE,
              recursion_desired |-> query_message.header.recursion_desired,
              recursion_available |-> FALSE,
              reserved |-> 0,
              response_code |-> "Ok",
              question_count |-> AsU16(Len(questions)),
              answer_record_count |-> AsU16(Len(answers)),
              authority_record_count |-> 0,
              additional_record_count |-> 0 ],
            questions, answers, <<>>, <<>>)

\* Message::new_reply that copies the four flags of the query
Message_new_reply_copy_flags(query_message, questions, answers) ==
    Message([ packet_id |-> query_message.header.packet_id,
              is_response |-> TRUE,
              op_code |-> query_message.header.op_code,
              authoritative_answer |-> query_message.header.authoritative_answer,
              truncation |-> query_message.header.truncation,
              recursion_desired |-> query_message.header.recursion_desired,
              recursion_available |-> query_message.header.recursion_available,
              reserved |-> 0,
              response_code |-> IF query_message.header.op_code = "Query"
                                THEN "Ok" ELSE "NotImplemented",
              question_count |-> AsU16(Len(questions)),
              answer_record_count |-> AsU16(Len(answers)),
              authority_record_count |-> 0,
              additional_record_count |-> 0 ],
            questions, answers, <<>>, <<>>)

Message_new_reply(query_message, questions, answers) ==
    Message([ packet_id |-> query_message.header.packet_id,
              is_response |-> TRUE,
              op_code |-> query_message.header.op_code,
              authoritative_answer |-> FALSE,
              truncation |-> FALSE,
              recursion_desired |-> query_message.header.recursion_desired,
              recursion_available |-> FALSE,
              reserved |-> 0,
              response_code |-> IF query_message.header.op_code = "Query"
                                THEN "Ok" ELSE "NotImplemented",
              question_count |-> AsU16(Len(questions)),
              answer_record_count |-> AsU16(Len(answers)),
              authority_record_count |-> 0,
              additional_record_count |-> 0 ],
            questions, answers, <<>>, <<>>)

\* nom::multi::count(Question::parse, n): n questions one after the other
RECURSIVE CountQuestions(_, _, _)
CountQuestions(n, i, acc) ==
    IF n = 0 THEN Ok(acc, i)
    ELSE LET q == Question_parse(i) IN
         IF q.kind # "Ok" THEN q
         ELSE CountQuestions(n - 1, q.rest, Append(acc, q.value))

\* nom::multi::count(ResourceRecord::parse, n)
RECURSIVE CountRecords(_, _, _)
CountRecords(n, i, acc) ==
    IF n = 0 THEN Ok(acc, i)
    ELSE LET r == ResourceRecord_parse(i) IN
         IF r.kind # "Ok" THEN r
         ELSE CountRecords(n - 1, r.rest, Append(acc, r.value))

\* the three record sections of Message::parse, after the questions
Message_parse_records(header, questions, rest) ==
    LET an == CountRecords(header.answer_record_count, rest, <<>>) IN
    IF an.kind # "Ok" THEN an ELSE
    LET ns == CountRecords(header.authority_record_count, an.rest, <<>>) IN
    IF ns.kind # "Ok" THEN ns ELSE
    LET ar == CountRecords(header.additional_record_count, ns.rest, <<>>) IN
    IF ar.kind # "Ok" THEN ar ELSE
    Ok(Message(header, questions, an.value, ns.value, ar.value), <<>>)

\* the question section of Message::parse, after the header
Message_parse_questions(header, rest) ==
    LET qs == CountQuestions(header.question_count, rest, <<>>) IN
    IF qs.kind # "Ok" THEN qs ELSE Message_parse_records(header, qs.value, qs.rest)

Message_parse(i) ==
    LET h == Header_parse(i) IN
    IF h.kind # "Ok" THEN Err ELSE Message_parse_questions(h.value, h.rest)

RECURSIVE WriteQuestions(_, _)
WriteQuestions(qs, buf) ==
    IF qs = <<>> THEN [kind |-> "Ok", buf |-> buf]
    ELSE LET w == Question_write(qs[1], buf) IN
         IF w.kind # "Ok" THEN w ELSE WriteQuestions(Drop(qs, 1), w.buf)

RECURSIVE WriteRecords(_, _)
WriteRecords(rs, buf) ==
    IF rs = <<>> THEN [kind |-> "Ok", buf |-> buf]
    ELSE LET w == ResourceRecord_write(rs[1], buf) IN
         IF w.kind # "Ok" THEN w ELSE WriteRecords(Drop(rs, 1), w.buf)

Message_write(m) ==
    LET q == WriteQuestions(m.questions, Header_write(m.header)) IN
    IF q.kind # "Ok" THEN q ELSE
    LET an == WriteRecords(m.answers, q.buf) IN
    IF an.kind # "Ok" THEN an ELSE
    LET ns == WriteRecords(m.authorities, an.buf) IN
    IF ns.kind # "Ok" THEN ns ELSE
    WriteRecords(m.additionals, ns.buf)

\* the loop of Message::get_labels over the questions; end is
\* msg_offset + question.length() for the first of them
RECURSIVE LookupFrom(_, _, _)
LookupAt(questions, offset, msg_offset, end) ==
    IF end.kind # "Ok" THEN end
    ELSE IF offset < end.value
         THEN Question_get_label(questions[1], offset - msg_offset)
         ELSE LookupFrom(Drop(questions, 1), offset, end.value)

LookupFrom(questions, offset, msg_offset) ==
    IF questions = <<>> THEN Err
    ELSE LookupAt(questions, offset, msg_offset,
                  AddCost(msg_offset, Question_length(questions[1])))

\* Message::get_labels, delegating to Question::get_label
Message_get_labels(m, offset) ==
    IF offset < 12 THEN Err ELSE LookupFrom(m.questions, offset, 12)

\* the loop of DomainName::decompress: every label becomes one Value label
RECURSIVE DecompressLabels(_, _)
DecompressLabels(labels, message) ==
    IF labels = <<>> THEN Ok(<<>>, <<>>)
    ELSE LET label == labels[1]
             this == IF label.tag = "Value" THEN Ok(label.s, <<>>)
                     ELSE Message_get_labels(message, label.off) IN
         IF this.kind # "Ok" THEN this
         ELSE LET more == DecompressLabels(Drop(labels, 1), message) IN
              IF more.kind # "Ok" THEN more
              ELSE Ok(<<Value(this.value)>> \o more.value, <<>>)

DomainName_decompress(name, message) ==
    LET r == DecompressLabels(name.labels, message) IN
    IF r.kind # "Ok" THEN r ELSE Ok(DomainName(r.value), <<>>)

-----------------------------------------------------------------------------
(* main.rs : the receive loop and forward.  The server is single-threaded  *)
(* and blocks only in recv_from, so each operator below runs the code from *)
(* one recv_from returning to the next recv_from being called.             *)

\* the size of the receive buffers of main and forward
BufSize == 512

\* [0; 512]
Zeros == [k \in 1..BufSize |-> 0]

\* recv_from(&mut buf): the datagram overwrites the start of the buffer, the
\* bytes behind it stay as they were
RecvInto(buf, d) ==
    IF Len(d) >= BufSize THEN Take(d, BufSize) ELSE d \o Drop(buf, Len(d))

\* one call on the socket: recv_from returning a datagram from a peer, or
\* send_to a peer
Event(op, peer, bytes) == [op |-> op, peer |-> peer, bytes |-> bytes]

\* the value of query_message while no request is being served
NoMessage == Message_new_query(0, <<>>)

\* the server as main enters its loop: `at` is the recv_from it blocks in
\* ("recv" in main, "await" in forward), "start" before main has run, or
\* "exited"; `k` is the question
\* forward is at; `events` are the socket calls made for the request
InitialServer ==
    [ at |-> "recv", exit |-> "none", buf |-> Zeros, served |-> 0, source |-> "none",
      query_message |-> NoMessage, k |-> 0, answers |-> <<>>, events |-> <<>> ]

\* main returns an error ("Err") or the thread panics ("Panic")
Exited(s, kind) == [s EXCEPT !.at = "exited", !.exit = kind]

\* the server as the process starts, before main has run
StartingServer == [InitialServer EXCEPT !.at = "start"]

\* the socket addresses that str::parse::<SocketAddrV4> accepts among the
\* arguments given here
SocketAddrs == {"127.0.0.1:5354"}

\* args[2].parse::<SocketAddrV4>()
SocketAddrV4_parse(str) == IF str \in SocketAddrs THEN Ok(str, <<>>) ELSE Err

\* main up to its loop, resolver_addr being the result of the parse:
\* UdpSocket::bind(..).expect(..), bind_ok telling whether bind succeeds
main_bind(s, resolver_addr, bind_ok) ==
    IF resolver_addr.kind # "Ok" THEN Exited(s, "Err")
    ELSE IF ~bind_ok THEN Exited(s, "Panic")
    ELSE [s EXCEPT !.at = "recv"]

\* main up to its loop: args holds the program name and its arguments
\* (args[1] here is args[0] of the code)
main_start(s, args, bind_ok) ==
    IF Len(args) = 3 /\ args[2] = "--resolver"
    THEN main_bind(s, SocketAddrV4_parse(args[3]), bind_ok)
    ELSE Exited(s, "Err")

\* the question with the name n, the result of decompressing its own
Question_with_name(q, n) ==
    IF n.kind # "Ok" THEN n ELSE Ok(Question(n.value, q.ty, q.class), <<>>)

\* Question::decompressed_clone: the question with its name decompressed
Question_decompressed_clone(q, message) ==
    Question_with_name(q, DomainName_decompress(q.name, message))

\* the record with the name n, the result of decompressing its own
ResourceRecord_with_name(r, n) ==
    IF n.kind # "Ok" THEN n ELSE Ok([r EXCEPT !.name = n.value], <<>>)

\* ResourceRecord::decompressed_clone: the record with its name decompressed
ResourceRecord_decompressed_clone(r, message) ==
    ResourceRecord_with_name(r, DomainName_decompress(r.name, message))

\* one more item pushed in front of the items that follow it, unless one of
\* the two failed
Pushed(this, more) ==
    IF this.kind # "Ok" THEN this
    ELSE IF more.kind # "Ok" THEN more
    ELSE Ok(<<this.value>> \o more.value, <<>>)

\* forward: answers.push(answer.decompressed_clone(&response_message)?) for
\* every answer of the upstream reply
RECURSIVE DecompressAnswers(_, _)
DecompressAnswers(answers, response_message) ==
    IF answers = <<>> THEN Ok(<<>>, <<>>)
    ELSE Pushed(ResourceRecord_decompressed_clone(answers[1], response_message),
                DecompressAnswers(Drop(answers, 1), response_message))

\* unwrap()
Unwrapped(r) == IF r.kind # "Ok" THEN Panic ELSE r

\* forward: questions.iter().map(|q| q.decompressed_clone(..).unwrap())
RECURSIVE CloneQuestions(_, _)
CloneQuestions(questions, query_message) ==
    IF questions = <<>> THEN Ok(<<>>, <<>>)
    ELSE Pushed(Unwrapped(Question_decompressed_clone(questions[1], query_message)),
                CloneQuestions(Drop(questions, 1), query_message))

\* send_to(..).expect(..) returned an error: the call is made, nothing is
\* sent, the thread panics
send_failed(s, bytes) ==
    Exited([s EXCEPT !.events = Append(@, Event("send", "error", bytes))], "Panic")

\* main: send_to(&response, source).expect(..) of the bytes written, w;
\* send_ok tells whether send_to succeeds
send_written(s, w, send_ok) ==
    IF w.kind # "Ok" THEN Exited(s, w.kind)
    ELSE IF ~send_ok THEN send_failed(s, w.buf)
    ELSE [s EXCEPT !.at = "recv", !.events = Append(@, Event("send", s.source, w.buf))]

\* main: response_message.write(&mut response)?; send_to(&response, source)
send_response(s, response_message, send_ok) ==
    send_written(s, Message_write(response_message), send_ok)

\* the end of forward, the questions decompressed: Message::new_reply of the
\* query, these questions and the answers gathered
forward_reply_to(s, questions, send_ok) ==
    IF questions.kind # "Ok" THEN Exited(s, "Panic")
    ELSE send_response(s, Message_new_reply(s.query_message, questions.value, s.answers),
                       send_ok)

\* the end of forward
forward_reply(s, send_ok) ==
    forward_reply_to(s, CloneQuestions(s.query_message.questions, s.query_message),
                     send_ok)

\* forward: send_to(&msg, resolver_addr).expect(..) of the bytes written, w
send_query_written(s, k, w, send_ok) ==
    IF w.kind # "Ok" THEN Exited(s, w.kind)
    ELSE IF ~send_ok THEN send_failed(s, w.buf)
    ELSE [s EXCEPT !.at = "await", !.k = k,
                   !.events = Append(@, Event("send", "resolver", w.buf))]

\* forward: query_message.write(&mut msg)?; send_to(&msg, resolver_addr)
send_query(s, k, query_message, send_ok) ==
    send_query_written(s, k, Message_write(query_message), send_ok)

\* forward: the query for one question, name being its name decompressed
forward_named(s, k, packet_id, question, name, send_ok) ==
    IF name.kind # "Ok" THEN Exited(s, name.kind)
    ELSE send_query(s, k, Message_new_query(packet_id,
                             <<Question(name.value, question.ty, question.class)>>),
                    send_ok)

\* the loop of forward as it reaches question k: the reply once the questions
\* are through, else the query for question k with packet_id drawn at random;
\* send_ok tells whether the one send_to made before the next recv_from
\* succeeds
forward_question(s, k, packet_id, send_ok) ==
    IF k > Len(s.query_message.questions) THEN forward_reply(s, send_ok)
    ELSE forward_named(s, k, packet_id, s.query_message.questions[k],
                       DomainName_decompress(s.query_message.questions[k].name,
                                             s.query_message), send_ok)

\* main, after Message::parse(&buf)
main_parsed(s, parsed, packet_id, send_ok) ==
    IF parsed.kind # "Ok" THEN Exited(s, parsed.kind)
    ELSE forward_question([s EXCEPT !.query_message = parsed.value], 1, packet_id,
                          send_ok)

\* main: recv_from(&mut buf) returned datagram d from source
main_receive(s, d, source, packet_id, send_ok) ==
    main_parsed([s EXCEPT !.buf = RecvInto(s.buf, d), !.source = source,
                          !.served = @ + 1, !.query_message = NoMessage, !.k = 0,
                          !.answers = <<>>, !.events = <<Event("recv", source, d)>>],
                Message_parse(RecvInto(s.buf, d)), packet_id, send_ok)

\* forward, the answers of the upstream reply decompressed
forward_answered(s, answers, packet_id, send_ok) ==
    IF answers.kind # "Ok" THEN Exited(s, answers.kind)
    ELSE forward_question([s EXCEPT !.answers = @ \o answers.value], s.k + 1, packet_id,
                          send_ok)

\* forward, after Message::parse(&buf) of the upstream reply
forward_parsed(s, parsed, packet_id, send_ok) ==
    IF parsed.kind # "Ok" THEN Exited(s, parsed.kind)
    ELSE forward_answered(s, DecompressAnswers(parsed.value.answers, parsed.value),
                          packet_id, send_ok)

\* forward: recv_from(&mut buf) into a new [0; 512] returned datagram d
forward_receive(s, d, source, packet_id, send_ok) ==
    forward_parsed([s EXCEPT !.events = Append(@, Event("recv", source, d))],
                   Message_parse(RecvInto(Zeros, d)), packet_id, send_ok)

\* recv_from returned an error: bail. In forward the call belongs to the
\* request being served, in main it is the first call of the next turn
receive_error(s) ==
    IF s.at = "await"
    THEN Exited([s EXCEPT !.events = Append(@, Event("recv", "error", <<>>))], "Err")
    ELSE Exited([s EXCEPT !.source = "none", !.query_message = NoMessage, !.k = 0,
                          !.answers = <<>>,
                          !.events = <<Event("recv", "error", <<>>)>>], "Err")

-----------------------------------------------------------------------------
(* Bounds and the values the operations are applied to.                    *)

\* longest string given to DomainName::_new, besides the long-label strings
MaxStrLen == 4

\* longest raw buffer given to DomainName::parse
MaxNameBuf == 4

\* most questions in a message
MaxQuestions == 2

\* most answers given to Message::new_reply
MaxAnswers == 2

\* largest offset looked up in a message
MaxOffset == 34

Rep(b, n) == [k \in 1..n |-> b]

SeqsUpTo(S, n) == UNION {[1..k -> S] : k \in 0..n}

\* s and every shorter buffer it starts with
Prefixes(s) == { Take(s, k) : k \in 0..Len(s) }

Headers ==
    [ packet_id : {1234, 65535},
      is_response : BOOLEAN,
      op_code : OpCodes,
      authoritative_answer : BOOLEAN,
      truncation : BOOLEAN,
      recursion_desired : BOOLEAN,
      recursion_available : BOOLEAN,
      reserved : 0..7,
      response_code : ResponseCodes,
      question_count : {1},
      answer_record_count : {0, 513},
      authority_record_count : {0},
      additional_record_count : {65535} ]

\* twelve header bytes around every byte 2 and a spread of bytes 3, followed
\* by nothing or by one more byte
RawHeaders ==
    { <<4, 210, b2, 16 * z + r, 0, 1, 0, 0, 0, 0, 0, 0>> \o tail :
        b2 \in 0..255, z \in {0, 5, 8, 15}, r \in 0..15, tail \in {<<>>, <<7>>} }

\* every buffer shorter than a header
ShortHeaders == Prefixes(<<4, 210, 1, 0, 0, 1, 0, 0, 0, 0, 0>>)

\* a name of n bytes is one label
LongLabel(n) == Rep(97, n)

NameStrings ==
    SeqsUpTo({97, 98, Dot}, MaxStrLen)
      \cup { LongLabel(MAX_LABEL_SIZE), LongLabel(MAX_LABEL_SIZE + 1),
             LongLabel(MAX_LABEL_SIZE) \o <<Dot, 195, 169>>,
             <<99, 111, 100, 101, 99, 114, 97, 102, 116, 101, 114, 115, Dot, 105, 111>>,
             <<97, 98, 99, Dot, 105, 111>> }

\* 0 ends a name, 1 and 2 are lengths, 64 and 97 are lengths above 63, 192 and
\* 255 open a pointer, 255 is no UTF-8
NameBytes == {0, 1, 2, 12, 64, 97, 192, 255}

NameBuffers == SeqsUpTo(NameBytes, MaxNameBuf)

\* the names DomainName::parse and DomainName::_new return
ParsedNames == { DomainName_parse(i).value : i \in { j \in NameBuffers : DomainName_parse(j).kind = "Ok" } }

NewNames == { DomainName_new(s).value : s \in { t \in NameStrings : DomainName_new(t).kind = "Ok" } }

TypeValues == 0..18 \cup {255, 256, 257, 4096, 65535}

ClassValues == 0..6 \cup {255, 256, 257, 65535}

QuestionNameBuffers == { <<0>>, <<1, 97, 0>>, <<1, 97, 192, 12>>, <<192, 12>> }

QuestionBuffers ==
    { n \o PutU16(t) \o PutU16(c) : n \in QuestionNameBuffers, t \in TypeValues, c \in ClassValues }
      \cup Prefixes(<<1, 97, 0, 0, 1, 0, 1>>)
      \cup { <<64, 97, 0, 0, 1, 0, 1>>, <<1, 97, 191, 0, 0, 1, 0, 1>>, <<1, 255, 0, 0, 1, 0, 1>> }

-----------------------------------------------------------------------------
(* The operations.  Each is applied once, from the idle state.             *)

Init ==
    /\ pc = "idle"
    /\ input = [none |-> TRUE]
    /\ output = [none |-> TRUE]
    /\ server = InitialServer
    /\ fresh = InitialServer
    /\ overflow_checks \in BOOLEAN

\* Header::write, Header::parse of the bytes, Header::write of the parsed header
HeaderRoundTrip ==
    /\ pc = "idle"
    /\ \E h \in Headers :
         LET written == Header_write(h)
             parsed == Header_parse(written) IN
         /\ input' = h
         /\ output' = [ written |-> written,
                        parsed |-> parsed,
                        rewritten |-> IF parsed.kind = "Ok" THEN Header_write(parsed.value)
                                      ELSE <<>> ]
    /\ pc' = "Header_roundtrip"
    /\ UNCHANGED <<server, fresh, overflow_checks>>

\* Header::parse of raw bytes
HeaderParse ==
    /\ pc = "idle"
    /\ \E i \in RawHeaders \cup ShortHeaders :
         /\ input' = [bytes |-> i]
         /\ output' = Header_parse(i)
    /\ pc' = "Header_parse"
    /\ UNCHANGED <<server, fresh, overflow_checks>>

\* DomainName::_new, DomainName::write of the name, DomainName::parse of the bytes
NameRoundTrip ==
    /\ pc = "idle"
    /\ \E s \in NameStrings :
         LET name == DomainName_new(s)
             written == IF name.kind = "Ok" THEN DomainName_write(name.value, <<>>)
                        ELSE [kind |-> "Err", buf |-> <<>>]
             parsed == IF written.kind = "Ok" THEN DomainName_parse(written.buf) ELSE Err IN
         /\ input' = [string |-> s]
         /\ output' = [name |-> name, written |-> written, parsed |-> parsed]
    /\ pc' = "DomainName_roundtrip"
    /\ UNCHANGED <<server, fresh, overflow_checks>>

\* DomainName::parse of raw bytes
NameParse ==
    /\ pc = "idle"
    /\ \E i \in NameBuffers :
         /\ input' = [bytes |-> i]
         /\ output' = DomainName_parse(i)
    /\ pc' = "DomainName_parse"
    /\ UNCHANGED <<server, fresh, overflow_checks>>

\* DomainName::length and Question::length of a name the codec can hold
NameLength ==
    /\ pc = "idle"
    /\ \E name \in ParsedNames \cup NewNames, ty \in {"Address", "Invalid"} :
         /\ input' = Question(name, ty, "Internet")
         /\ output' = [ name |-> DomainName_length(name),
                        question |-> Question_length(Question(name, ty, "Internet")) ]
    /\ pc' = "length"
    /\ UNCHANGED <<server, fresh, overflow_checks>>

\* DomainName::parse of raw bytes, then DomainName::length of the parsed name
NameParseLength ==
    /\ pc = "idle"
    /\ \E i \in NameBuffers :
         LET parsed == DomainName_parse(i) IN
         /\ input' = [bytes |-> i]
         /\ output' = [ parsed |-> parsed,
                        length |-> IF parsed.kind = "Ok" THEN DomainName_length(parsed.value)
                                   ELSE parsed ]
    /\ pc' = "DomainName_parse_length"
    /\ UNCHANGED <<server, fresh, overflow_checks>>

\* Question::parse of raw bytes
QuestionParse ==
    /\ pc = "idle"
    /\ \E i \in QuestionBuffers :
         /\ input' = [bytes |-> i]
         /\ output' = Question_parse(i)
    /\ pc' = "Question_parse"
    /\ UNCHANGED <<server, fresh, overflow_checks>>



\* the wire form of a question named "a", of one with the root name, of one
\* whose name is a pointer to offset 12, of one named "a.bc", and of one whose
\* first length byte is 64
QuestionWires ==
    { <<1, 97, 0, 0, 1, 0, 1>>, <<0, 0, 1, 0, 1>>, <<192, 12, 0, 1, 0, 1>>,
      <<1, 97, 2, 98, 99, 0, 0, 1, 0, 1>>, <<64, 97, 0, 0, 1, 0, 1>> }

RECURSIVE Flatten(_)
Flatten(ss) == IF ss = <<>> THEN <<>> ELSE ss[1] \o Flatten(Drop(ss, 1))

MessageBodies == { Flatten(ws) : ws \in SeqsUpTo(QuestionWires, MaxQuestions) }

\* the header of a query with the given counts, as bytes
CountsHeader(qd, an, ns, ar) ==
    Header_write([Header_new_query(1234, qd) EXCEPT
                    !.answer_record_count = an,
                    !.authority_record_count = ns,
                    !.additional_record_count = ar])

\* whole messages and every prefix of them
MessageBuffers ==
    UNION { Prefixes(CountsHeader(qd, rc[1], rc[2], rc[3]) \o body) :
              qd \in 0..MaxQuestions,
              rc \in {<<0, 0, 0>>, <<1, 0, 0>>, <<0, 1, 0>>, <<0, 0, 1>>},
              body \in MessageBodies }

\* the messages Message::parse returns
ParsedMessages ==
    { Message_parse(i).value : i \in { j \in MessageBuffers : Message_parse(j).kind = "Ok" } }

codecrafters == <<99, 111, 100, 101, 99, 114, 97, 102, 116, 101, 114, 115>>
io == <<105, 111>>

\* one question named "codecrafters.io", then an answer whose name is a
\* pointer to offset 12
PointerMessage ==
    Message([Header_new_query(1234, 1) EXCEPT !.is_response = TRUE, !.answer_record_count = 1],
            <<Question(DomainName(<<Value(codecrafters), Value(io)>>), "Address", "Internet")>>,
            <<ResourceRecord_new(DomainName(<<Pointer(12)>>), "Address", "Internet", 60,
                                 <<8, 8, 8, 8>>)>>,
            <<>>, <<>>)

\* names as DomainName::parse returns them: Value labels, then at most a pointer
PointerNames ==
    { DomainName(pre \o <<Pointer(o)>>) : pre \in {<<>>, <<Value(<<97>>)>>}, o \in 0..MaxOffset }
      \cup { DomainName(<<Value(<<97>>), Value(<<98, 99>>)>>), DomainName(<<>>) }

QueryHeaders ==
    [ packet_id : {1234, 65535},
      is_response : {FALSE},
      op_code : OpCodes,
      authoritative_answer : BOOLEAN,
      truncation : BOOLEAN,
      recursion_desired : BOOLEAN,
      recursion_available : BOOLEAN,
      reserved : 0..7,
      response_code : {"Ok"},
      question_count : 0..MaxQuestions,
      answer_record_count : {0},
      authority_record_count : {0},
      additional_record_count : {0} ]

SomeQuestions ==
    { Question(DomainName(<<Value(<<97>>)>>), "Address", "Internet"),
      Question(DomainName(<<Value(codecrafters), Value(io)>>), "Text", "Chaos") }

SomeAnswers ==
    { ResourceRecord_new(DomainName(<<Value(<<97>>)>>), "Address", "Internet", 60, <<8, 8, 8, 8>>),
      ResourceRecord_new(DomainName(<<Value(codecrafters), Value(io)>>), "Address", "Internet",
                         3600, <<76, 76, 21, 21>>) }

\* the messages looked into
Messages == ParsedMessages \cup {PointerMessage}

\* Message::parse of raw bytes
MessageParse ==
    /\ pc = "idle"
    /\ \E i \in MessageBuffers :
         /\ input' = [bytes |-> i]
         /\ output' = Message_parse(i)
    /\ pc' = "Message_parse"
    /\ UNCHANGED <<server, fresh, overflow_checks>>

\* Message::new_reply for a query, the questions and the answers of the reply
NewReply ==
    /\ pc = "idle"
    /\ \E h \in QueryHeaders,
          questions \in SeqsUpTo(SomeQuestions, MaxQuestions),
          answers \in SeqsUpTo(SomeAnswers, MaxAnswers) :
         LET query_message ==
                 Message(h, [k \in 1..h.question_count |->
                               Question(DomainName(<<Value(<<97>>)>>), "Address", "Internet")],
                         <<>>, <<>>, <<>>) IN
         /\ input' = [query_message |-> query_message, questions |-> questions,
                      answers |-> answers]
         /\ output' = Message_new_reply(query_message, questions, answers)
    /\ pc' = "Message_new_reply"
    /\ UNCHANGED <<server, fresh, overflow_checks>>

\* the label lookup of a message at an offset
Lookup ==
    /\ pc = "idle"
    /\ \E m \in Messages, offset \in 0..MaxOffset :
         /\ input' = [message |-> m, offset |-> offset]
         /\ output' = [found |-> Message_get_labels(m, offset)]
    /\ pc' = "Message_get_labels"
    /\ UNCHANGED <<server, fresh, overflow_checks>>

\* DomainName::decompress of a name against a message
Decompress ==
    /\ pc = "idle"
    /\ \E name \in PointerNames, m \in Messages :
         /\ input' = [name |-> name, message |-> m]
         /\ output' = DomainName_decompress(name, m)
    /\ pc' = "DomainName_decompress"
    /\ UNCHANGED <<server, fresh, overflow_checks>>

\* names given to the encoders, each one a name that DomainName::_new or
\* DomainName::parse returns: the root name, "a", "a.bc", a label of 63
\* bytes, a pointer, and "a" then a pointer
NamesToWrite ==
    { DomainName(<<>>),
      DomainName(<<Value(<<97>>)>>),
      DomainName(<<Value(<<97>>), Value(<<98, 99>>)>>),
      DomainName(<<Value(LongLabel(MAX_LABEL_SIZE))>>),
      DomainName(<<Pointer(12)>>),
      DomainName(<<Value(<<97>>), Pointer(12)>>) }

QuestionsToWrite == { Question(n, "Address", "Internet") : n \in NamesToWrite }

RecordsToWrite ==
    { ResourceRecord_new(n, "Address", "Internet", 60, <<8, 8, 8, 8>>) :
        n \in { DomainName(<<Value(<<97>>)>>), DomainName(<<Pointer(12)>>),
                DomainName(<<Value(<<97>>), Pointer(12)>>) } }

\* the queries Message::new_reply answers here
QueriesToAnswer ==
    { Message_new_query(1234, <<>>),
      Message([Header_new_query(65535, 2) EXCEPT !.op_code = "Status",
                                                 !.answer_record_count = 3,
                                                 !.additional_record_count = 1],
              <<Question(DomainName(<<Value(<<97>>)>>), "Address", "Internet")>>,
              <<>>, <<>>, <<>>) }

\* messages and the constructor that made each
MessagesToWrite ==
    { [message |-> Message_new_query(id, qs), by |-> "new_query"] :
        id \in {0, 1234}, qs \in SeqsUpTo(QuestionsToWrite, MaxQuestions) }
      \cup { [message |-> Message_new_reply(query, qs, an), by |-> "new_reply"] :
               query \in QueriesToAnswer,
               qs \in SeqsUpTo(QuestionsToWrite, 1),
               an \in SeqsUpTo(RecordsToWrite, MaxAnswers) }
      \cup { [message |-> m, by |-> "parse"] : m \in ParsedMessages }
      \cup { [message |-> Message(Header_new_query(1234, 1), qs, <<>>, ns, ar), by |-> "literal"] :
               qs \in SeqsUpTo(QuestionsToWrite, 1),
               ns \in SeqsUpTo(RecordsToWrite, 1),
               ar \in SeqsUpTo(RecordsToWrite, 1) }

\* Message::write of a message, and Question::write and ResourceRecord::write
\* of each of its entries into a buffer of their own
Write ==
    /\ pc = "idle"
    /\ \E mb \in MessagesToWrite :
         LET m == mb.message
             records == m.answers \o m.authorities \o m.additionals IN
         /\ input' = mb
         /\ output' = [ message |-> Message_write(m),
                        questions |-> [k \in 1..Len(m.questions) |->
                                         Question_write(m.questions[k], <<>>)],
                        records |-> [k \in 1..Len(records) |->
                                       ResourceRecord_write(records[k], <<>>)] ]
    /\ pc' = "Message_write"
    /\ UNCHANGED <<server, fresh, overflow_checks>>

Next ==
    \/ HeaderRoundTrip
    \/ HeaderParse
    \/ NameRoundTrip
    \/ NameParse
    \/ NameLength
    \/ NameParseLength
    \/ QuestionParse
    \/ MessageParse
    \/ NewReply
    \/ Lookup
    \/ Decompress
    \/ Write

Spec == Init /\ [][Next]_vars

-----------------------------------------------------------------------------
(* The server: datagrams arrive on its one socket from clients and from    *)
(* the resolver, in any order the network delivers them.                   *)

\* most datagrams main receives in a run
MaxRequests == 2

Clients == {"c1", "c2"}

\* the values the random generator of Header::new_query yields here
PacketIds == {1234, 4660}

\* the header of a client's query with packet id 7 and qd questions
ClientHeader(qd) == [CountsHeader(qd, 0, 0, 0) EXCEPT ![1] = 0, ![2] = 7]

\* a query without a question, one for "a", one for the address of "a" and
\* for the name servers of a pointer to offset 12, and twelve bytes that
\* announce a question and hold none
ClientDatagrams ==
    { ClientHeader(0),
      ClientHeader(1) \o <<1, 97, 0, 0, 1, 0, 1>>,
      ClientHeader(2) \o <<1, 97, 0, 0, 1, 0, 1>> \o <<192, 12, 0, 2, 0, 1>>,
      ClientHeader(1) }

\* the query returned as a reply: the QR bit set
AsReply(query) == [query EXCEPT ![3] = 128]

\* a label of n zero bytes
ZeroLabel(n) == <<n>> \o [k \in 1..n |-> 0]

\* BufSize bytes that do not decode: the name of the one question announced
\* has a label that runs past the end of the buffer
Undecodable ==
    ClientHeader(1)
      \o ZeroLabel(63) \o ZeroLabel(63) \o ZeroLabel(63) \o ZeroLabel(63)
      \o ZeroLabel(63) \o ZeroLabel(63) \o ZeroLabel(63) \o ZeroLabel(50) \o <<63>>

\* what may arrive while forward waits for the reply to `query`: the reply of
\* the resolver, one with another packet id, one announcing an answer
\* record, one that does not decode, and the query of another client
UpstreamDatagrams(query, source) ==
    { Event("recv", "resolver", AsReply(query)),
      Event("recv", "resolver", [AsReply(query) EXCEPT ![2] = (@ + 1) % 256]),
      Event("recv", "resolver",
            [AsReply(query) EXCEPT ![8] = 1]
              \o <<192, 12, 0, 1, 0, 1, 0, 0, 0, 60, 0, 4, 8, 8, 8, 8>>),
      Event("recv", "resolver", Undecodable) }
      \cup { Event("recv", c, ClientHeader(1) \o <<1, 98, 0, 0, 1, 0, 1>>) :
               c \in Clients \ {source} }

\* the command lines the server is started with
Arguments ==
    { <<"dns">>,
      <<"dns", "--resolver">>,
      <<"dns", "--forward", "127.0.0.1:5354">>,
      <<"dns", "--resolver", "nonsense">>,
      <<"dns", "--resolver", "127.0.0.1:5354">> }

ServerInit ==
    /\ pc = "start"
    /\ input = [none |-> TRUE]
    /\ output = [none |-> TRUE]
    /\ server = StartingServer
    /\ fresh = StartingServer
    /\ overflow_checks \in BOOLEAN

\* main reads its arguments and binds its socket
Start ==
    /\ pc = "start"
    /\ \E args \in Arguments, bind_ok \in BOOLEAN :
         /\ server' = main_start(server, args, bind_ok)
         /\ fresh' = main_start(fresh, args, bind_ok)
    /\ pc' = server'.at
    /\ UNCHANGED <<input, output, overflow_checks>>

\* main receives a datagram and serves it up to the next recv_from
MainReceive ==
    /\ pc = "recv"
    /\ server.served < MaxRequests
    /\ \E d \in ClientDatagrams, source \in Clients, packet_id \in PacketIds,
          send_ok \in BOOLEAN :
         /\ server' = main_receive(server, d, source, packet_id, send_ok)
         /\ fresh' = main_receive([server EXCEPT !.buf = Zeros], d, source, packet_id,
                                  send_ok)
    /\ pc' = server'.at
    /\ UNCHANGED <<input, output, overflow_checks>>

\* forward receives a datagram and goes on up to the next recv_from
ForwardReceive ==
    /\ pc = "await"
    /\ \E e \in UpstreamDatagrams(server.events[Len(server.events)].bytes, server.source),
          packet_id \in PacketIds, send_ok \in BOOLEAN :
         /\ server' = forward_receive(server, e.bytes, e.peer, packet_id, send_ok)
         /\ fresh' = IF fresh.at = "await"
                      THEN forward_receive(fresh, e.bytes, e.peer, packet_id, send_ok)
                      ELSE fresh
    /\ pc' = server'.at
    /\ UNCHANGED <<input, output, overflow_checks>>

\* recv_from fails, in main or in forward
ReceiveError ==
    /\ pc \in {"recv", "await"}
    /\ server' = receive_error(server)
    /\ fresh' = IF fresh.at = server.at THEN receive_error(fresh) ELSE fresh
    /\ pc' = server'.at
    /\ UNCHANGED <<input, output, overflow_checks>>

ServerNext ==
    \/ Start
    \/ MainReceive
    \/ ForwardReceive
    \/ ReceiveError

ServerSpec == ServerInit /\ [][ServerNext]_vars

-----------------------------------------------------------------------------
(* What the wire format says, read off the bytes without the decoder.      *)

Scanned(st, rest) == [st |-> st, rest |-> rest]

\* the bytes after a name: "ok" with what follows the name, "short" when the
\* buffer ends inside the name, "bad" at a length byte above 63 that opens no
\* pointer or at a label that is no UTF-8
RECURSIVE ScanName(_)
ScanName(i) ==
    IF i = <<>> THEN Scanned("short", <<>>)
    ELSE IF i[1] = 0 THEN Scanned("ok", Drop(i, 1))
    ELSE IF i[1] >= 192 THEN
        (IF Len(i) < 2 THEN Scanned("short", <<>>) ELSE Scanned("ok", Drop(i, 2)))
    ELSE IF i[1] > 63 THEN Scanned("bad", <<>>)
    ELSE IF Len(i) < 1 + i[1] THEN Scanned("short", <<>>)
    ELSE IF ~IsUtf8(SubSeq(i, 2, 1 + i[1])) THEN Scanned("bad", <<>>)
    ELSE ScanName(Drop(i, 1 + i[1]))

\* n more bytes after a scan
ScanFixed(r, n) ==
    IF r.st # "ok" THEN r
    ELSE IF Len(r.rest) < n THEN Scanned("short", <<>>)
    ELSE Scanned("ok", Drop(r.rest, n))

\* a question: a name, TYPE(16), CLASS(16)
ScanQuestion(i) == ScanFixed(ScanName(i), 4)

\* a record: a name, TYPE(16), CLASS(16), TTL(32), RDLENGTH(16), RDATA
ScanRecord(i) ==
    LET f == ScanFixed(ScanName(i), 10) IN
    IF f.st # "ok" THEN f
    ELSE LET at == Len(i) - Len(f.rest) IN
         ScanFixed(f, i[at - 1] * 256 + i[at])

\* nq questions, then nr records
RECURSIVE ScanEntries(_, _, _)
ScanEntries(nq, nr, i) ==
    IF nq > 0 THEN
        LET q == ScanQuestion(i) IN
        IF q.st # "ok" THEN q ELSE ScanEntries(nq - 1, nr, q.rest)
    ELSE IF nr > 0 THEN
        LET r == ScanRecord(i) IN
        IF r.st # "ok" THEN r ELSE ScanEntries(nq, nr - 1, r.rest)
    ELSE Scanned("ok", i)

\* the 16-bit count at bytes k, k+1 of a header
CountAt(i, k) == i[k] * 256 + i[k + 1]

\* the buffer ends before the entries its header announces
EndsEarly(i) ==
    \/ Len(i) < 12
    \/ ScanEntries(CountAt(i, 5), CountAt(i, 7) + CountAt(i, 9) + CountAt(i, 11),
                   Drop(i, 12)).st = "short"

\* decoding the name at the head of i meets, after well-formed labels, a
\* length byte above 63 whose top two bits are not 11
RECURSIVE MeetsLongLabel(_)
MeetsLongLabel(i) ==
    /\ i # <<>>
    /\ i[1] # 0
    /\ i[1] < 192
    /\ \/ i[1] > 63
       \/ /\ Len(i) >= 1 + i[1]
          /\ IsUtf8(SubSeq(i, 2, 1 + i[1]))
          /\ MeetsLongLabel(Drop(i, 1 + i[1]))

\* the bytes a name takes on the wire
RECURSIVE WireLabels(_)
WireLabels(labels) ==
    IF labels = <<>> THEN 0
    ELSE (IF labels[1].tag = "Value" THEN 1 + Len(labels[1].s) ELSE 2)
           + WireLabels(Drop(labels, 1))

WireName(name) ==
    WireLabels(name.labels)
      + (IF name.labels # <<>> /\ name.labels[Len(name.labels)].tag = "Pointer" THEN 0 ELSE 1)

\* the message offset of question k
RECURSIVE QuestionStart(_, _)
QuestionStart(m, k) ==
    IF k = 1 THEN 12 ELSE QuestionStart(m, k - 1) + WireName(m.questions[k - 1].name) + 4

\* the Value labels of the questions of m whose first byte is at the offset
ValueLabelsAt(m, offset) ==
    UNION { LET labels == m.questions[k].name.labels IN
            { labels[l].s :
                l \in { n \in 1..Len(labels) :
                          /\ labels[n].tag = "Value"
                          /\ QuestionStart(m, k) + WireLabels(Take(labels, n - 1)) = offset } } :
            k \in 1..Len(m.questions) }

-----------------------------------------------------------------------------
(* The claims.                                                             *)

\* C1: for every valid Header h, writing h, parsing the twelve bytes and
\* writing the parsed header again yields the same twelve bytes:
\* encode(decode(encode(h))) = encode(h).
C1_HeaderRoundTrip ==
    pc = "Header_roundtrip" =>
        /\ Len(output.written) = 12
        /\ output.parsed.kind = "Ok"
        /\ output.parsed.rest = <<>>
        /\ output.rewritten = output.written

\* a header with the Invalid opcode and response code, every flag set and
\* reserved = 7 has made the round trip
C1_Witness ==
    /\ pc = "Header_roundtrip"
    /\ input.op_code = "Invalid" /\ input.response_code = "Invalid"
    /\ input.reserved = 7 /\ input.recursion_available /\ input.recursion_desired
    /\ input.is_response /\ input.additional_record_count = 65535
    /\ output.written[3] = 159 /\ output.written[4] = 246
    /\ output.rewritten = output.written

\* C2: a name built by DomainName::_new, all of whose labels are Value labels,
\* is written and parsed back to exactly the same labels, and the parse
\* consumes exactly the written bytes.
C2_NameRoundTrip ==
    (pc = "DomainName_roundtrip" /\ output.name.kind = "Ok") =>
        /\ output.written.kind = "Ok"
        /\ output.parsed.kind = "Ok"
        /\ output.parsed.value = output.name.value
        /\ output.parsed.rest = <<>>

\* C3: decompressing the answer name of PointerMessage, a single pointer to
\* offset 12, against that message yields the labels "codecrafters", "io",
\* all of them Value labels.
C3_PointerResolution ==
    (/\ pc = "DomainName_decompress"
     /\ input.message = PointerMessage
     /\ input.name = PointerMessage.answers[1].name) =>
        /\ output.kind = "Ok"
        /\ output.value = DomainName(<<Value(codecrafters), Value(io)>>)

\* C4: the header of Message::new_reply has the packet id and the opcode of
\* the query, is_response set, response code Ok for opcode Query and
\* NotImplemented for IQuery, Status and Invalid, question and answer counts
\* equal to the numbers of supplied questions and answers, authority and
\* additional counts 0 and those sections empty.
C4_ReplyDerivation ==
    pc = "Message_new_reply" =>
        LET q == input.query_message.header
            h == output.header IN
        /\ h.packet_id = q.packet_id
        /\ h.is_response = TRUE
        /\ h.op_code = q.op_code
        /\ q.op_code = "Query" => h.response_code = "Ok"
        /\ q.op_code \in {"IQuery", "Status", "Invalid"} => h.response_code = "NotImplemented"
        /\ h.question_count = Len(input.questions)
        /\ h.answer_record_count = Len(input.answers)
        /\ h.authority_record_count = 0
        /\ h.additional_record_count = 0
        /\ output.questions = input.questions
        /\ output.answers = input.answers
        /\ output.authorities = <<>>
        /\ output.additionals = <<>>

\* a reply to a Status query that announced two questions, given one question
\* and two answers
C4_Witness ==
    /\ pc = "Message_new_reply"
    /\ input.query_message.header.packet_id = 1234
    /\ input.query_message.header.op_code = "Status"
    /\ input.query_message.header.question_count = 2
    /\ Len(input.questions) = 1 /\ Len(input.answers) = 2
    /\ output.header.response_code = "NotImplemented"
    /\ output.header.question_count = 1
    /\ output.header.answer_record_count = 2

\* C5 as stated: in every header of Message::new_reply the recursion-desired,
\* recursion-available, authoritative-answer and truncation flags are all
\* false.
C5_FlagsCleared ==
    pc = "Message_new_reply" =>
        /\ ~output.header.recursion_desired
        /\ ~output.header.recursion_available
        /\ ~output.header.authoritative_answer
        /\ ~output.header.truncation

\* C5 amended: in every header of Message::new_reply the recursion-available,
\* authoritative-answer and truncation flags are false, whatever the query
\* header carried, and the recursion-desired flag is that of the query.
C5_FlagsAmended ==
    pc = "Message_new_reply" =>
        /\ output.header.recursion_desired = input.query_message.header.recursion_desired
        /\ ~output.header.recursion_available
        /\ ~output.header.authoritative_answer
        /\ ~output.header.truncation

\* a reply to a query that has all four flags set
C5_Witness ==
    /\ pc = "Message_new_reply"
    /\ input.query_message.header.recursion_desired
    /\ input.query_message.header.recursion_available
    /\ input.query_message.header.authoritative_answer
    /\ input.query_message.header.truncation
    /\ output.header.recursion_desired
    /\ ~output.header.recursion_available

\* C6: a length byte above 63 whose top two bits are not 11 makes
\* DomainName::parse, Question::parse and Message::parse return an error:
\* neither a panic nor a name.
C6_LongLabelRejected ==
    /\ (pc \in {"DomainName_parse", "Question_parse"} /\ MeetsLongLabel(input.bytes)) =>
           output.kind = "Err"
    /\ (/\ pc = "Message_parse"
        /\ Len(input.bytes) > 12
        /\ CountAt(input.bytes, 5) >= 1
        /\ MeetsLongLabel(Drop(input.bytes, 12))) =>
           output.kind = "Err"

\* C7: Header::parse returns an error for every input shorter than 12 bytes,
\* Message::parse returns an error whenever the buffer ends before the
\* questions and records its header announces, and a Message that
\* Message::parse returns has as many entries as announced.
C7_TruncatedRejected ==
    /\ (pc = "Header_parse" /\ Len(input.bytes) < 12) => output.kind = "Err"
    /\ (pc = "Message_parse" /\ EndsEarly(input.bytes)) => output.kind = "Err"
    /\ (pc = "Message_parse" /\ output.kind = "Ok") =>
           /\ Len(output.value.questions) = CountAt(input.bytes, 5)
           /\ Len(output.value.answers) = CountAt(input.bytes, 7)
           /\ Len(output.value.authorities) = CountAt(input.bytes, 9)
           /\ Len(output.value.additionals) = CountAt(input.bytes, 11)

\* C8: the label lookup of a message returns an error for every offset that
\* is not the first byte of a Value label of one of its questions (below 12,
\* past the last question, in type/class bytes, on a terminator, inside a
\* label, on a pointer); when it returns a label, the offset is the first
\* byte of a Value label and the label is that one.
C8_LookupOffsets ==
    pc = "Message_get_labels" =>
        /\ ValueLabelsAt(input.message, input.offset) = {} => output.found.kind = "Err"
        /\ output.found.kind = "Ok" =>
              ValueLabelsAt(input.message, input.offset) = {output.found.value}

\* The lookup never returns a wrong label: C8_LookupOffsets fails only where
\* the lookup panics.
LookupReturnsNoWrongLabel ==
    pc = "Message_get_labels" =>
        /\ ValueLabelsAt(input.message, input.offset) = {} => output.found.kind # "Ok"
        /\ output.found.kind = "Ok" =>
              ValueLabelsAt(input.message, input.offset) = {output.found.value}

\* the 4-bit opcode and response-code fields of a raw header
OpCodeField(i) == (i[3] \div 8) % 16
ResponseCodeField(i) == i[4] % 16

\* the type and class fields of a well-formed question at the head of i
TypeField(i) == CountAt(i, Len(i) - Len(ScanName(i).rest) + 1)
ClassField(i) == CountAt(i, Len(i) - Len(ScanName(i).rest) + 3)

\* C9: Header decode succeeds for every 4-bit opcode and response-code value
\* and Question decode for every 16-bit type and class value; a defined value
\* (opcode 0..2, response code 0..5, type 1..16, class 1..4) decodes to the
\* variant with that discriminant and every other value to Invalid.
C9_Enums ==
    /\ (pc = "Header_parse" /\ Len(input.bytes) >= 12) =>
          /\ output.kind = "Ok"
          /\ IF OpCodeField(input.bytes) <= 2
             THEN /\ output.value.op_code # "Invalid"
                  /\ OpCodeAsU8(output.value.op_code) = OpCodeField(input.bytes)
             ELSE output.value.op_code = "Invalid"
          /\ IF ResponseCodeField(input.bytes) <= 5
             THEN /\ output.value.response_code # "Invalid"
                  /\ ResponseCodeAsU8(output.value.response_code) = ResponseCodeField(input.bytes)
             ELSE output.value.response_code = "Invalid"
    /\ (pc = "Question_parse" /\ ScanQuestion(input.bytes).st = "ok") =>
          /\ output.kind = "Ok"
          /\ IF TypeField(input.bytes) \in 1..16
             THEN /\ output.value.ty # "Invalid"
                  /\ RecordTypeAsU16(output.value.ty) = TypeField(input.bytes)
             ELSE output.value.ty = "Invalid"
          /\ IF ClassField(input.bytes) \in 1..4
             THEN /\ output.value.class # "Invalid"
                  /\ ClassAsU16(output.value.class) = ClassField(input.bytes)
             ELSE output.value.class = "Invalid"

\* a question of type 257 and class 3 has been decoded
C9_Witness ==
    /\ pc = "Question_parse"
    /\ input.bytes = <<1, 97, 0, 1, 1, 0, 3>>
    /\ output.kind = "Ok"
    /\ output.value.ty = "Invalid"
    /\ output.value.class = "Chaos"

\* 1 + the byte length of every label
RECURSIVE SumPrefixed(_)
SumPrefixed(labels) ==
    IF labels = <<>> THEN 0 ELSE 1 + Len(labels[1].s) + SumPrefixed(Drop(labels, 1))

\* the name "abc.io"
abc_io == DomainName(<<Value(<<97, 98, 99>>), Value(io)>>)

\* C10 as stated: DomainName::length of a name ending in a Value label is the
\* sum of 1 + byte length over its labels plus 1, so that "abc.io" has length
\* 9; of a name ending in a Pointer it is that sum over the labels before the
\* pointer plus 2; Question::length is the name length plus 4.
C10_AsStated ==
    pc = "length" =>
        LET labels == input.name.labels
            n == Len(labels) IN
        /\ (n > 0 /\ labels[n].tag = "Value") =>
              output.name = Ok(SumPrefixed(labels) + 1, <<>>)
        /\ (n > 0 /\ labels[n].tag = "Pointer") =>
              output.name = Ok(SumPrefixed(Take(labels, n - 1)) + 2, <<>>)
        /\ input.name = abc_io => output.name = Ok(9, <<>>)
        /\ output.name.kind = "Ok" => output.question = Ok(output.name.value + 4, <<>>)
        /\ output.question.kind = "Ok" => output.name.kind = "Ok"

\* C10 amended: DomainName::length of a name ending in a Value label is the
\* sum of 1 + byte length over its labels plus 1, so that "abc.io" has length
\* 1+3 + 1+2 + 1 = 8; of a name ending in a Pointer it is that sum over the
\* labels before the pointer plus 2, no terminator counted; Question::length
\* is the name length plus 4.
C10_LengthAccounting ==
    pc = "length" =>
        LET labels == input.name.labels
            n == Len(labels) IN
        /\ (n > 0 /\ labels[n].tag = "Value") =>
              output.name = Ok(SumPrefixed(labels) + 1, <<>>)
        /\ (n > 0 /\ labels[n].tag = "Pointer") =>
              output.name = Ok(SumPrefixed(Take(labels, n - 1)) + 2, <<>>)
        /\ input.name = abc_io => output.name = Ok(8, <<>>)
        /\ output.name.kind = "Ok" => output.question = Ok(output.name.value + 4, <<>>)
        /\ output.question.kind = "Ok" => output.name.kind = "Ok"

\* the length of a name that is one label "a" and then a pointer
C10_Witness ==
    /\ pc = "length"
    /\ input.name = DomainName(<<Value(<<97>>), Pointer(12)>>)
    /\ output.name = Ok(4, <<>>)
    /\ output.question = Ok(8, <<>>)

-----------------------------------------------------------------------------
(* Claims about encoding and counts.                                       *)

\* the labels of a message in the order Message::write meets them
RECURSIVE LabelsOf(_)
LabelsOf(entries) ==
    IF entries = <<>> THEN <<>> ELSE entries[1].name.labels \o LabelsOf(Drop(entries, 1))

HoldsPointer(labels) == \E k \in 1..Len(labels) : labels[k].tag = "Pointer"

\* the entries of the message being written, in write order
WrittenEntries ==
    input.message.questions \o input.message.answers
        \o input.message.authorities \o input.message.additionals

\* the outcomes of the entries' own encoders, in the same order
EntryOutcomes == output.questions \o output.records

\* C12: encoding a Message, Question or ResourceRecord whose name holds a
\* Pointer label never completes with output bytes, and it fails in a way
\* distinct from the malformed-input failure (the error returned for a label
\* longer than 63 bytes): the encoder aborts at the Pointer label.
C12_PointerEncodeDistinct ==
    pc = "Message_write" =>
        /\ HoldsPointer(LabelsOf(WrittenEntries)) =>
              output.message.kind \notin {"Ok", "Err"}
        /\ \A k \in 1..Len(WrittenEntries) :
              HoldsPointer(WrittenEntries[k].name.labels) =>
                  EntryOutcomes[k].kind \notin {"Ok", "Err"}

\* a message whose second question and whose answer hold a pointer was written
C12_Witness ==
    /\ pc = "Message_write"
    /\ Len(input.message.questions) = 2
    /\ ~HoldsPointer(input.message.questions[1].name.labels)
    /\ HoldsPointer(input.message.questions[2].name.labels)
    /\ output.message.kind = "Panic"
    /\ output.questions[1].kind = "Ok"
    /\ output.questions[2].kind = "Panic"

\* the four counts of a header equal the lengths of the four sections
CountsMatch(m) ==
    /\ m.header.question_count = Len(m.questions)
    /\ m.header.answer_record_count = Len(m.answers)
    /\ m.header.authority_record_count = Len(m.authorities)
    /\ m.header.additional_record_count = Len(m.additionals)

\* the bytes of the outcomes, one after the other
RECURSIVE JoinBufs(_)
JoinBufs(outcomes) ==
    IF outcomes = <<>> THEN <<>> ELSE outcomes[1].buf \o JoinBufs(Drop(outcomes, 1))

\* C13: in every Message produced by Message::parse, Message::new_query or
\* Message::new_reply each of the four header counts equals the number of
\* entries of its section; Message::write then writes those counts followed
\* by exactly the entries, each as its own encoder writes it, in section
\* order; and a successful Message::parse has decoded as many questions as
\* bytes 5-6 of the buffer announce, then as many answer, authority and
\* additional records as bytes 7-8, 9-10 and 11-12 announce.
C13_CountInvariant ==
    /\ (pc = "Message_write" /\ input.by \in {"parse", "new_query", "new_reply"}) =>
          /\ CountsMatch(input.message)
          /\ output.message.kind = "Ok" =>
                /\ CountAt(output.message.buf, 5) = Len(input.message.questions)
                /\ CountAt(output.message.buf, 7) = Len(input.message.answers)
                /\ CountAt(output.message.buf, 9) = Len(input.message.authorities)
                /\ CountAt(output.message.buf, 11) = Len(input.message.additionals)
                /\ Drop(output.message.buf, 12) = JoinBufs(EntryOutcomes)
    /\ (pc = "Message_new_reply") => CountsMatch(output)
    /\ (pc = "Message_parse" /\ output.kind = "Ok") =>
          /\ CountsMatch(output.value)
          /\ Len(output.value.questions) = CountAt(input.bytes, 5)
          /\ Len(output.value.answers) = CountAt(input.bytes, 7)
          /\ Len(output.value.authorities) = CountAt(input.bytes, 9)
          /\ Len(output.value.additionals) = CountAt(input.bytes, 11)
          /\ ScanEntries(CountAt(input.bytes, 5),
                         CountAt(input.bytes, 7) + CountAt(input.bytes, 9)
                           + CountAt(input.bytes, 11),
                         Drop(input.bytes, 12)).st = "ok"

\* a query of two questions made by Message::new_query was written
C13_Witness ==
    /\ pc = "Message_write"
    /\ input.by = "new_query"
    /\ Len(input.message.questions) = 2
    /\ output.message.kind = "Ok"
    /\ CountAt(output.message.buf, 5) = 2

-----------------------------------------------------------------------------
(* Claims about decoded names.                                             *)

\* C14: in every DomainName returned by DomainName::parse at most one label
\* is a Pointer and it is the last label; its offset is the low 6 bits of
\* the tag byte times 256 plus the following byte, and decoding stops right
\* after those two bytes, reading no terminator.
C14_PointerLast ==
    (pc = "DomainName_parse" /\ output.kind = "Ok") =>
        LET labels == output.value.labels
            n == Len(labels) IN
        /\ \A k \in 1..n : labels[k].tag = "Pointer" => k = n
        /\ (n > 0 /\ labels[n].tag = "Pointer") =>
              LET at == WireLabels(Take(labels, n - 1)) + 1 IN
              /\ input.bytes[at] >= 192
              /\ labels[n].off = (input.bytes[at] % 64) * 256 + input.bytes[at + 1]
              /\ output.rest = Drop(input.bytes, at + 1)

\* the bytes ff 0c 00 were decoded: one pointer to offset 63 * 256 + 12, the
\* zero byte left unread
C14_Witness ==
    /\ pc = "DomainName_parse"
    /\ input.bytes = <<255, 12, 0>>
    /\ output = Ok(DomainName(<<Pointer(16140)>>), <<0>>)

\* C16: for every DomainName that DomainName::parse returns, the root name
\* of the single byte 0 included, DomainName::length does not panic and is
\* the number of bytes parse consumed; and Message::get_labels does not
\* panic on a message that Message::parse returned.
C16_LengthOfParsed ==
    /\ (pc = "DomainName_parse_length" /\ output.parsed.kind = "Ok") =>
          output.length = Ok(Len(input.bytes) - Len(output.parsed.rest), <<>>)
    /\ (pc = "Message_get_labels" /\ input.message \in ParsedMessages) =>
          output.found.kind # "Panic"

\* the length of every parsed name but the root name is the number of bytes
\* consumed
LengthOfParsedNonRoot ==
    (pc = "DomainName_parse_length" /\ output.parsed.kind = "Ok"
       /\ output.parsed.value.labels # <<>>) =>
          output.length = Ok(Len(input.bytes) - Len(output.parsed.rest), <<>>)

-----------------------------------------------------------------------------
(* Claims about the server.                                                *)

\* the datagrams sent to clients
RECURSIVE Replies(_)
Replies(events) ==
    IF events = <<>> THEN <<>>
    ELSE (IF events[1].op = "send" /\ events[1].peer \in Clients THEN <<events[1]>> ELSE <<>>)
           \o Replies(Drop(events, 1))

\* C11: the reply sent for a datagram depends only on the datagram and on
\* the upstream replies received while serving it: it is the reply of the
\* run in which no datagram was served before, given the same upstream
\* replies and packet ids.
C11_PerPacketPurity ==
    pc \in {"start", "recv", "await", "exited"} =>
        /\ Replies(server.events) = Replies(fresh.events)
        /\ server.at = fresh.at

\* the question at position k of the inbound query, its name written out
AskedQuestion(k) ==
    Question(DomainName_decompress(server.query_message.questions[k].name,
                                   server.query_message).value,
             server.query_message.questions[k].ty,
             server.query_message.questions[k].class)

\* the socket call e is the upstream query for question k: it goes to the
\* resolver and decodes, as sent, to a message of that one question
QueryFor(e, sent, k) ==
    /\ e.op = "send" /\ e.peer = "resolver"
    /\ sent.kind = "Ok"
    /\ sent.value.header.question_count = 1
    /\ sent.value.questions = <<AskedQuestion(k)>>
    /\ sent.value.answers = <<>>

\* the socket call at position i is the upstream query for question k
IsQueryFor(i, k) ==
    QueryFor(server.events[i], Message_parse(server.events[i].bytes), k)

\* the socket call at position i is a datagram received
IsReceived(i) == server.events[i].op = "recv" /\ server.events[i].peer # "error"

\* the answers of the datagrams received at the positions 3, 5, .. up to i, in
\* that order
RECURSIVE AnswersReceived(_)
AnswersReceived(i) ==
    IF i < 3 THEN <<>>
    ELSE AnswersReceived(i - 2)
           \o Message_parse(RecvInto(Zeros, server.events[i].bytes)).value.answers

\* the socket call e is the reply to the client: it decodes, as sent, to the
\* questions of the query and the given answers
ReplyWith(e, sent, answers) ==
    /\ e.op = "send" /\ e.peer = server.source
    /\ sent.kind = "Ok"
    /\ sent.value.header.is_response
    /\ sent.value.header.packet_id = server.query_message.header.packet_id
    /\ sent.value.questions =
         [k \in 1..Len(server.query_message.questions) |-> AskedQuestion(k)]
    /\ sent.value.answers = answers

\* the socket call at position i is the reply to the client, made of the
\* questions of the query and the answers received
IsReplyAt(i) ==
    ReplyWith(server.events[i], Message_parse(server.events[i].bytes),
              AnswersReceived(i - 1))

\* the socket call at position i is a send_to that returned an error, and the
\* thread has panicked
IsFailedSend(i) ==
    /\ server.events[i].op = "send" /\ server.events[i].peer = "error"
    /\ server.at = "exited" /\ server.exit = "Panic"

\* The order of the socket calls, whatever the datagrams received: serving a
\* query of n questions, the calls after the receipt of the query alternate
\* between the upstream query for question 1, 2, .. and the receipt of one
\* datagram; the reply to the client is the one call after the n-th receipt
\* and carries the answers decoded, in order; a send_to that fails is the
\* last call of the run; a request that ends in an error or a panic has no
\* reply.
ForwardingOrderOfDatagrams ==
    LET events == server.events
        n == Len(server.query_message.questions) IN
    /\ events # <<>> =>
          /\ events[1].op = "recv"
          /\ events[1].peer = IF server.source = "none" THEN "error" ELSE server.source
    /\ \A i \in 2..Len(events) :
          \/ i % 2 = 0 /\ i <= 2 * n /\ IsQueryFor(i, i \div 2)
          \/ i % 2 = 1 /\ i <= 2 * n + 1 /\ events[i].op = "recv"
          \/ i = 2 * n + 2 /\ i = Len(events) /\ IsReplyAt(i)
          \/ i % 2 = 0 /\ i <= 2 * n + 2 /\ i = Len(events) /\ IsFailedSend(i)
    /\ \A i \in 3..(Len(events) - 1) : i % 2 = 1 => IsReceived(i)
    /\ server.at = "await" => Len(events) % 2 = 0 /\ Len(events) = 2 * server.k
    /\ server.at = "recv" /\ events # <<>> => Len(events) = 2 * n + 2
    /\ server.at = "exited" =>
          \A i \in 1..Len(events) : ~(events[i].op = "send" /\ events[i].peer \in Clients)

\* the datagram received at position i is a reply to the upstream query sent
\* at position i - 1: it comes from the resolver, is a response, and carries
\* the packet id of that query
IsReplyFor(i) ==
    /\ server.events[i].op = "recv"
    /\ server.events[i].peer = "resolver"
    /\ Len(server.events[i].bytes) >= 3
    /\ Take(server.events[i].bytes, 2) = Take(server.events[i - 1].bytes, 2)
    /\ server.events[i].bytes[3] >= 128

\* C15: serving a query of n questions, the server sends n upstream queries of
\* one question each, in question order; it sends query i + 1 only after a
\* reply datagram for query i has been received, and the one reply to the
\* client only after the n upstream replies, carrying their answers in
\* order; a request in which a receive fails or a reply does not decode has
\* no reply.
C15_ForwardingOrder ==
    /\ ForwardingOrderOfDatagrams
    /\ \A i \in 3..(Len(server.events) - 1) :
          (i % 2 = 1 /\ server.events[i + 1].peer # "error") => IsReplyFor(i)

\* C17: a datagram that forward goes on from, to its next query or to the
\* reply, came from the resolver and carries the packet id of the upstream
\* query that was outstanding.
C17_OnlyUpstreamReplies ==
    \A i \in 3..(Len(server.events) - 1) :
        server.events[i].op = "recv" =>
            /\ server.events[i].peer = "resolver"
            /\ Take(server.events[i].bytes, 2) = Take(server.events[i - 1].bytes, 2)

====
